---- MODULE Spec2Model ----
(***************************************************************************)
(* Model of the axum reverse proxy (axum-example-rev-proxy).                *)
(*                                                                         *)
(* The server runs one task per inbound request.  Tasks share one          *)
(* AppState: the reqwest client, the read-only configuration and the       *)
(* Mutex-guarded RequestMetrics.  A task is at one position (pc) of its    *)
(* handler; every .await of the handler is a position of its own, and the  *)
(* statements between two awaits are taken in one step, except inside      *)
(* record_request, which is split in two steps that both run under the     *)
(* metrics lock.                                                           *)
(***************************************************************************)
EXTENDS Integers, Sequences, FiniteSets, TLC

VARIABLES
    pc,         \* task -> position of the task in its handler
    inb,        \* task -> the inbound request the task serves (<<>> before arrival)
    org,        \* task -> what the origin call produced so far
    etype,      \* task -> error_type handed to record_error
    out,        \* task -> sequence of outbound requests the client sent for the task
    followed,   \* task -> sequence of origin responses the client answered itself
    nrec,       \* task -> number of times the task changed the aggregator
    resp,       \* task -> the response returned to the caller (<<>> before)
    obs,        \* task -> the snapshot a /metrics read rendered (<<>> if none)
    lock,       \* holder of AppState.metrics (0: free)
    metrics,    \* the RequestMetrics behind the mutex
    origin,     \* an origin response given to forward_response (<<>> if none)
    forwarded,  \* what forward_response made of it (<<>> before)
    calls,      \* the record_request and record_error calls made on a
                \* RequestMetrics taken alone, in order
    given,      \* a serde_json::Value given to sort_json (<<>> if none)
    results     \* what sort_json returned for it, then for its own result

vars == <<pc, inb, org, etype, out, followed, nrec, resp, obs, lock, metrics,
          origin, forwarded, calls, given, results>>

-----------------------------------------------------------------------------
(* Bounds of the model *)

\* number of concurrently served requests
NumTasks == 2

Tasks == 1..NumTasks

\* longest chain of redirects an origin answers with (the client gives up
\* after 10)
MaxHops == 1

\* longest header list of an origin response given to forward_response
MaxHeaders == 3

\* longest body of an origin response given to forward_response
MaxBodyLen == 2

-----------------------------------------------------------------------------
(* main.rs: constants and input domains *)

\* const MAX_BODY_SIZE: usize = 8 * 1024 * 1024
MAX_BODY_SIZE == 8388608

\* HTTP status codes of the responses the proxy itself produces
OK == 200
BAD_REQUEST == 400
FORBIDDEN == 403
INTERNAL_SERVER_ERROR == 500
BAD_GATEWAY == 502

\* Input domains.  An action draws what the outside world decides (the inbound
\* request, the origin's answer, the clock) from the domain D it is given:
\*   envs       {env} segment of /{env}/{*wildcard_path}
\*   paths      what follows /{env}/ in the path of the request line, as
\*              the caller sent it (percent-encoded where it has to be)
\*   methods    request method
\*   queries    req.uri().query(): <<>> for None, <<q>> for Some(q)
\*   headers    inbound header lists
\*   lens       length of the inbound body
\*   statuses   status codes an origin answers with
\*   oheaders   header lists an origin answers with
\*   bodies     response bodies an origin answers with (byte sequences)
\*   durations  total_start.elapsed().as_millis()
\*   failures   causes of a failed reqwest send(): the overall or connect
\*              timeout, a refused connection, a failed name resolution, a
\*              connection closed before the response was complete
\*   addrs      remote address of a webhook caller
\*   sigs       x-nowpayments-sig header of a webhook call
\*   wbodies    body of a webhook call

\* webhook bodies: not JSON; {"c":3,"a":1,"b":2}; {"a":1,"b":2,"c":3};
\* {"z":{"y":2,"x":[{"b":2,"a":1}]},"a":1}; 42
BodyGarbage == [wellformed |-> FALSE, doc |-> [t |-> "null", v |-> 0]]
BodyCAB ==
    [ wellformed |-> TRUE,
      doc |-> [t |-> "obj", v |-> << <<(<<99>>), [t |-> "num", v |-> 3]>>,
                                      <<(<<97>>), [t |-> "num", v |-> 1]>>,
                                      <<(<<98>>), [t |-> "num", v |-> 2]>> >>] ]
BodyABC ==
    [ wellformed |-> TRUE,
      doc |-> [t |-> "obj", v |-> << <<(<<97>>), [t |-> "num", v |-> 1]>>,
                                      <<(<<98>>), [t |-> "num", v |-> 2]>>,
                                      <<(<<99>>), [t |-> "num", v |-> 3]>> >>] ]
BodyNested ==
    [ wellformed |-> TRUE,
      doc |-> [t |-> "obj", v |-> <<
          <<(<<122>>), [t |-> "obj", v |-> <<
              <<(<<121>>), [t |-> "num", v |-> 2]>>,
              <<(<<120>>), [t |-> "arr", v |-> <<
                  [t |-> "obj", v |-> << <<(<<98>>), [t |-> "num", v |-> 2]>>,
                                          <<(<<97>>), [t |-> "num", v |-> 1]>> >>] >>]>> >>]>>,
          <<(<<97>>), [t |-> "num", v |-> 1]>> >>] ]
BodyNumber == [wellformed |-> TRUE, doc |-> [t |-> "num", v |-> 42]]

\* the domain of the concurrent server
Narrow ==
    [ envs      |-> {"test", "staging"},
      paths     |-> {"a"},
      methods   |-> {"GET"},
      queries   |-> {<<>>},
      headers   |-> { << <<"host", "proxy.example">> >> },
      lens      |-> {0},
      statuses  |-> {200, 302, 502},
      oheaders  |-> { << <<"location", "http://elsewhere.example/x">>,
                         <<"content-length", "9">> >> },
      bodies    |-> {<<7>>},
      durations |-> {1},
      failures  |-> {"timeout", "incomplete"},
      addrs     |-> { [family |-> "V4", ip |-> "51.89.194.21"],
                      [family |-> "V4", ip |-> "203.0.113.7"] },
      sigs      |-> {"signed"},
      wbodies   |-> {BodyCAB} ]

\* the domain of the concurrent server whose progress is examined: one
\* request of each kind, one answer of each kind
Lean ==
    [ envs      |-> {"test"},
      paths     |-> {"a"},
      methods   |-> {"GET"},
      queries   |-> {<<>>},
      headers   |-> { << <<"host", "proxy.example">> >> },
      lens      |-> {0},
      statuses  |-> {200, 302},
      oheaders  |-> { << <<"location", "http://elsewhere.example/x">>,
                         <<"content-length", "9">> >> },
      bodies    |-> {<<7>>},
      durations |-> {1},
      failures  |-> {"timeout"},
      addrs     |-> { [family |-> "V4", ip |-> "51.89.194.21"] },
      sigs      |-> {"signed"},
      wbodies   |-> {BodyCAB} ]

\* the domain of the server taking one request
Wide ==
    [ envs      |-> {"test", "prod", "staging", "Test", ""},
      paths     |-> {"a", "b/c", "a%20b", "a%2Fb"},
      methods   |-> {"GET", "POST"},
      queries   |-> {<<>>, <<"x=1">>},
      headers   |-> { <<>>,
                      << <<"host", "proxy.example">>, <<"accept", "*/*">> >> },
      lens      |-> {0, 5, MAX_BODY_SIZE, MAX_BODY_SIZE + 1},
      statuses  |-> {101, 200, 204, 302, 399, 400, 404, 500, 502},
      oheaders  |-> { <<>>,
                      << <<"location", "http://elsewhere.example/x">> >>,
                      << <<"transfer-encoding", "chunked">>,
                         <<"connection", "close">>,
                         <<"content-length", "9">> >> },
      bodies    |-> {<<>>, <<7>>, <<7, 8>>},
      durations |-> {1, 2},
      failures  |-> {"timeout", "connect", "dns", "incomplete"},
      addrs     |-> { [family |-> "V4", ip |-> "51.89.194.21"],
                      [family |-> "V4", ip |-> "65.21.158.36"],
                      [family |-> "V4", ip |-> "203.0.113.7"],
                      [family |-> "V6", ip |-> "::ffff:51.89.194.21"] },
      sigs      |-> {"missing", "nonascii", "signed", "upper", "unsorted",
                     "wrongkey"},
      wbodies   |-> {BodyGarbage, BodyCAB, BodyABC, BodyNested, BodyNumber} ]

-----------------------------------------------------------------------------
(* app_state.rs: RequestMetrics *)

EmptyMap == [k \in {} |-> 0]

\* impl Default for RequestMetrics (start_time, a wall-clock stamp, is left out)
MetricsDefault ==
    [ total_requests          |-> 0,
      successful_requests     |-> 0,
      failed_requests         |-> 0,
      total_request_time_ms   |-> 0,
      avg_request_time_ms     |-> <<0, 1>>,
      requests_by_path        |-> EmptyMap,
      requests_by_status      |-> EmptyMap,
      response_sizes          |-> EmptyMap,
      slowest_request_time_ms |-> 0,
      slowest_request_path    |-> "",
      connection_errors       |-> 0,
      timeout_errors          |-> 0,
      dns_errors              |-> 0,
      env_requests            |-> EmptyMap ]

\* an entry that is set to 1 at every call, in place of or_insert(0) += 1
EntrySetOne(map, k) ==
    [x \in DOMAIN map \cup {k} |-> IF x = k THEN 1 ELSE map[x]]

\* *map.entry(k).or_insert(0) += 1
EntryIncrement(map, k) ==
    [x \in DOMAIN map \cup {k} |->
        IF x = k THEN (IF k \in DOMAIN map THEN map[k] ELSE 0) + 1 ELSE map[x]]

\* a map that adds v to what k had, in place of map.insert(k, v)
MapInsertAdd(map, k, v) ==
    [x \in DOMAIN map \cup {k} |->
        IF x = k THEN (IF k \in DOMAIN map THEN map[k] ELSE 0) + v ELSE map[x]]

\* map.insert(k, v)
MapInsert(map, k, v) ==
    [x \in DOMAIN map \cup {k} |-> IF x = k THEN v ELSE map[x]]

\* status >= 200 && status < 300 in place of line 87
IsSuccessStatus2xx(status) == status >= 200 /\ status < 300

\* status >= 200 && status < 400
IsSuccessStatus(status) == status >= 200 /\ status < 400

\* record_request, lines 72-84: the counters and the per-key maps
record_request_count(m, path, env, status, response_size) ==
    [m EXCEPT
        !.total_requests     = @ + 1,
        !.requests_by_path   = EntryIncrement(@, path),
        !.env_requests       = EntryIncrement(@, env),
        !.requests_by_status = EntryIncrement(@, status),
        !.response_sizes     = MapInsert(@, path, response_size)]

\* record_request, lines 86-101, with >= in the comparison of line 98: a
\* request as slow as the slowest replaces it
record_request_outcome_ge(m, path, status, duration_ms) ==
    LET m1 == IF status >= 200 /\ status < 400
              THEN [m EXCEPT !.successful_requests = @ + 1]
              ELSE [m EXCEPT !.failed_requests = @ + 1]
        m2 == [m1 EXCEPT !.total_request_time_ms = @ + duration_ms]
        m3 == [m2 EXCEPT !.avg_request_time_ms =
                            <<m2.total_request_time_ms, m2.total_requests>>]
    IN  IF duration_ms >= m3.slowest_request_time_ms
        THEN [m3 EXCEPT !.slowest_request_time_ms = duration_ms,
                        !.slowest_request_path = path]
        ELSE m3

\* record_request, lines 86-101: success/failure, timing, slowest request.
\* avg_request_time_ms is kept as the fraction <<total time, total requests>>.
record_request_outcome(m, path, status, duration_ms) ==
    LET m1 == IF IsSuccessStatus(status)
              THEN [m EXCEPT !.successful_requests = @ + 1]
              ELSE [m EXCEPT !.failed_requests = @ + 1]
        m2 == [m1 EXCEPT !.total_request_time_ms = @ + duration_ms]
        m3 == [m2 EXCEPT !.avg_request_time_ms =
                            <<m2.total_request_time_ms, m2.total_requests>>]
    IN  IF duration_ms > m3.slowest_request_time_ms
        THEN [m3 EXCEPT !.slowest_request_time_ms = duration_ms,
                        !.slowest_request_path = path]
        ELSE m3

\* RequestMetrics::record_request as one call
record_request(m, path, env, status, duration_ms, response_size) ==
    record_request_outcome(
        record_request_count(m, path, env, status, response_size),
        path, status, duration_ms)

\* record_error whose last arm counts an unknown kind as a connection error
record_error_counts_unknown(m, error_type) ==
    CASE error_type = "timeout" -> [m EXCEPT !.timeout_errors = @ + 1]
      [] error_type = "dns"     -> [m EXCEPT !.dns_errors = @ + 1]
      [] OTHER                  -> [m EXCEPT !.connection_errors = @ + 1]

\* RequestMetrics::record_error
record_error(m, error_type) ==
    CASE error_type = "connection" -> [m EXCEPT !.connection_errors = @ + 1]
      [] error_type = "timeout"    -> [m EXCEPT !.timeout_errors = @ + 1]
      [] error_type = "dns"        -> [m EXCEPT !.dns_errors = @ + 1]
      [] OTHER                     -> m

-----------------------------------------------------------------------------
(* The metrics mutex *)

\* A Mutex with no exclusion: every lock() succeeds at once.
LockAttemptNoMutex(p) == "ok"

\* try_lock() in place of lock(): Err while another task holds the mutex.
LockAttemptTry(p) == IF lock = 0 THEN "ok" ELSE "err"

\* state.metrics.lock(): blocks while the mutex is held.  It returns Err only
\* for a poisoned mutex, and no task can panic while holding this one
\* (record_request, record_error and the report do plain arithmetic and
\* formatting), so Err is not an outcome.
LockAttempt(p) == IF lock = 0 THEN "ok" ELSE "wait"

\* a MutexGuard that is never dropped: the mutex stays with the task
GuardKept(p) == p

\* the MutexGuard `metrics` goes out of scope at the end of its if-let block
\* (main.rs 298), before the response is built: the mutex is free again
GuardDropped(p) == 0

-----------------------------------------------------------------------------
(* main.rs: handler, the forwarding route /{env}/{*wildcard_path} *)

NoBase == <<>>

\* match env.as_str(), lines 159-166, treating every environment as "test"
target_base_default_test(env) ==
    IF env = "prod"
    THEN <<"https", "prod.services.travelomatix.com">>
    ELSE <<"http", "test.services.travelomatix.com">>

\* match env.as_str() { "test" => .., "prod" => .., _ => BAD_REQUEST }:
\* the base URL as <<scheme, host>>
target_base(env) ==
    CASE env = "test" -> <<"http", "test.services.travelomatix.com">>
      [] env = "prod" -> <<"https", "prod.services.travelomatix.com">>
      [] OTHER        -> NoBase

\* Path(PathParams { env, wildcard_path }), line 152: the Path extractor
\* percent-decodes what the route captured
percent_decode(captured) ==
    CASE captured = "a%20b" -> "a b"
      [] captured = "a%2Fb" -> "a/b"
      [] OTHER              -> captured

\* format!("{}{}{}", target_base, new_path, query), lines 169-176, kept as
\* its parts; query is <<>> or <<"?", q>>
target_uri_text(base, wildcard_path, query) ==
    [ scheme |-> base[1], host |-> base[2], path |-> <<"/", wildcard_path>>,
      query  |-> IF query = <<>> THEN <<>> ELSE <<"?", query[1]>> ]

\* uri.parse::<Uri>(): a space is not a URI character
UriParses(uri) == uri.path[2] # "a b"

\* lines 195-200: the inbound headers with Host replaced by the target host
outbound_headers(headers, target_host) ==
    Append(SelectSeq(headers, LAMBDA h : h[1] # "host"), <<"host", target_host>>)

\* lines 56-66: Client::builder() sets no redirect policy, so the client keeps
\* reqwest's default: a 301, 302, 303, 307 or 308 with a Location is not handed
\* to the handler; the client sends a request to the Location instead
follows_redirect(status, headers) ==
    /\ status \in {301, 302, 303, 307, 308}
    /\ SelectSeq(headers, LAMBDA h : h[1] = "location") # <<>>

\* e.is_timeout()
is_timeout(cause) == cause = "timeout"

\* e.is_connect(): a failed name resolution reaches reqwest as a connect error
is_connect(cause) == cause \in {"connect", "dns"}

\* lines 233-242
error_type_of(cause) ==
    IF is_timeout(cause) THEN "timeout"
    ELSE IF is_connect(cause) THEN "connection"
    ELSE "other"

\* HeaderMap::remove(name)
HeaderRemove(headers, name) == SelectSeq(headers, LAMBDA h : h[1] # name)

\* HeaderMap::insert(name, value): replaces every value the name had
HeaderInsert(headers, name, value) ==
    Append(HeaderRemove(headers, name), <<name, value>>)

\* HeaderValue::from(n as u64): the decimal text of n
DecimalText(n) == ToString(n)

\* lines 351-369, appending Content-Length to what the origin sent
forward_response_append(status, headers, body_bytes) ==
    [ status  |-> status,
      headers |-> Append(HeaderRemove(HeaderRemove(headers, "transfer-encoding"),
                                      "connection"),
                         <<"content-length", DecimalText(Len(body_bytes))>>),
      body    |-> body_bytes ]

\* lines 351-369 (the build without debug_response, the only one that compiles:
\* the debug_response block names GzDecoder and Read, which nothing imports)
forward_response(status, headers, body_bytes) ==
    LET body_len == Len(body_bytes)
        h1 == HeaderRemove(headers, "transfer-encoding")
        h2 == HeaderRemove(h1, "connection")
        h3 == HeaderInsert(h2, "content-length", DecimalText(body_len))
    IN  [status |-> status, headers |-> h3, body |-> body_bytes]

\* Err(StatusCode): axum answers with the bare status
error_response(status) == [status |-> status, headers |-> <<>>, body |-> <<>>]

Finish(p, r) ==
    /\ resp' = [resp EXCEPT ![p] = <<r>>]
    /\ pc' = [pc EXCEPT ![p] = "done"]

\* lines 150-209: the request arrives; environment match, target URI, headers
ForwardStart(p, D) ==
    /\ pc[p] = "idle"
    /\ \E env \in D.envs, captured \in D.paths, method \in D.methods,
          query \in D.queries, headers \in D.headers, len \in D.lens :
      LET wildcard_path == percent_decode(captured) IN
        /\ inb' = [inb EXCEPT ![p] = << [kind |-> "forward", env |-> env,
                                         captured |-> captured,
                                         path |-> wildcard_path,
                                         method |-> method, query |-> query,
                                         headers |-> headers, len |-> len] >>]
        /\ IF target_base(env) = NoBase
           THEN /\ Finish(p, error_response(BAD_REQUEST))
                /\ UNCHANGED etype
           ELSE IF ~UriParses(target_uri_text(target_base(env), wildcard_path, query))
           THEN /\ pc' = [pc EXCEPT ![p] = "err_lock"]
                /\ etype' = [etype EXCEPT ![p] = "dns"]
                /\ UNCHANGED resp
           ELSE /\ pc' = [pc EXCEPT ![p] = "read_body"]
                /\ UNCHANGED <<etype, resp>>
    /\ UNCHANGED <<org, out, followed, nrec, obs, lock, metrics,
                   origin, forwarded, calls, given, results>>

\* lines 207-225: to_bytes(req.into_body(), MAX_BODY_SIZE).await returned; the
\* body is attached only if the read was Ok, and the request is sent either way
ReadBody(p) ==
    /\ pc[p] = "read_body"
    /\ LET r == inb[p][1]
           uri == target_uri_text(target_base(r.env), r.path, r.query)
           maybe_body_ok == r.len <= MAX_BODY_SIZE
       IN  out' = [out EXCEPT ![p] = Append(@,
                     [ method   |-> r.method,
                       uri      |-> uri,
                       headers  |-> outbound_headers(r.headers, uri.host),
                       body_len |-> IF maybe_body_ok THEN r.len ELSE 0 ])]
    /\ pc' = [pc EXCEPT ![p] = "send"]
    /\ UNCHANGED <<inb, org, etype, followed, nrec, resp, obs, lock, metrics,
                   origin, forwarded, calls, given, results>>

\* line 225, inside request_builder.send().await: the origin answered with a
\* redirect and the client follows it
FollowRedirect(p, D) ==
    /\ pc[p] = "send"
    /\ Len(followed[p]) < MaxHops
    /\ \E status \in D.statuses, headers \in D.oheaders :
        /\ follows_redirect(status, headers)
        /\ followed' = [followed EXCEPT ![p] =
                           Append(@, [status |-> status, headers |-> headers])]
        /\ out' = [out EXCEPT ![p] =
                      Append(@, [redirected_to |->
                                   SelectSeq(headers, LAMBDA h : h[1] = "location")[1][2]])]
    /\ UNCHANGED <<pc, inb, org, etype, nrec, resp, obs, lock, metrics,
                   origin, forwarded, calls, given, results>>

\* lines 225-259: request_builder.send().await returned
SendResult(p, D) ==
    /\ pc[p] = "send"
    /\ \/ \E status \in D.statuses, headers \in D.oheaders :
            /\ ~follows_redirect(status, headers)
            /\ org' = [org EXCEPT ![p] =
                         << [status |-> status, headers |-> headers] >>]
            /\ pc' = [pc EXCEPT ![p] = "resp_body"]
            /\ UNCHANGED etype
       \/ \E cause \in D.failures :
            /\ etype' = [etype EXCEPT ![p] = error_type_of(cause)]
            /\ org' = [org EXCEPT ![p] = << [failed |-> cause] >>]
            /\ pc' = [pc EXCEPT ![p] = "err_lock"]
    /\ UNCHANGED <<inb, out, followed, nrec, resp, obs, lock, metrics,
                   origin, forwarded, calls, given, results>>

\* lines 261-287: response.bytes().await returned
ResponseBody(p, D) ==
    /\ pc[p] = "resp_body"
    /\ \/ \E body \in D.bodies, total_time \in D.durations :
            /\ org' = [org EXCEPT ![p] = << [status |-> org[p][1].status,
                                             headers |-> org[p][1].headers,
                                             body |-> body,
                                             total_time |-> total_time] >>]
            /\ pc' = [pc EXCEPT ![p] = "rec_lock"]
            /\ UNCHANGED etype
       \/ /\ etype' = [etype EXCEPT ![p] = "connection"]
          /\ org' = [org EXCEPT ![p] = << [failed |-> "body"] >>]
          /\ pc' = [pc EXCEPT ![p] = "err_lock"]
    /\ UNCHANGED <<inb, out, followed, nrec, resp, obs, lock, metrics,
                   origin, forwarded, calls, given, results>>

\* lines 183-186, 245-249, 273-277: if let Ok(mut metrics) = lock()
\* { metrics.record_error(..) }, then Err(BAD_GATEWAY)
RecordError(p) ==
    /\ pc[p] = "err_lock"
    /\ LockAttempt(p) # "wait"
    /\ metrics' = IF LockAttempt(p) = "ok"
                  THEN record_error(metrics, etype[p]) ELSE metrics
    /\ nrec' = [nrec EXCEPT ![p] = IF metrics' # metrics THEN @ + 1 ELSE @]
    /\ Finish(p, error_response(BAD_GATEWAY))
    /\ UNCHANGED <<inb, org, etype, out, followed, obs, lock,
                   origin, forwarded, calls, given, results>>

\* lines 289-298, first half: the lock is taken and record_request starts.
\* If lock() gave Err the update is skipped and the response is returned.
RecordBegin(p) ==
    /\ pc[p] = "rec_lock"
    /\ LockAttempt(p) # "wait"
    /\ LET r == inb[p][1]
           o == org[p][1]
       IN  IF LockAttempt(p) = "ok"
           THEN /\ lock' = p
                /\ metrics' = record_request_count(metrics, <<"/", r.path>>,
                                                   r.env, o.status, Len(o.body))
                /\ nrec' = [nrec EXCEPT ![p] = @ + 1]
                /\ pc' = [pc EXCEPT ![p] = "rec_outcome"]
                /\ UNCHANGED resp
           ELSE /\ Finish(p, forward_response(o.status, o.headers, o.body))
                /\ UNCHANGED <<lock, metrics, nrec>>
    /\ UNCHANGED <<inb, org, etype, out, followed, obs,
                   origin, forwarded, calls, given, results>>

\* lines 289-369, second half: record_request ends, the guard is dropped and
\* the origin's response is handed back
RecordEnd(p) ==
    /\ pc[p] = "rec_outcome"
    /\ LET r == inb[p][1]
           o == org[p][1]
       IN  /\ metrics' = record_request_outcome(metrics, <<"/", r.path>>,
                                                o.status, o.total_time)
           /\ Finish(p, forward_response(o.status, o.headers, o.body))
    /\ lock' = GuardDropped(p)
    /\ UNCHANGED <<inb, org, etype, out, followed, nrec, obs,
                   origin, forwarded, calls, given, results>>

\* the caller went away while the handler was suspended at an .await: the
\* server drops the handler's future, and nothing after the .await runs
Cancel(p) ==
    /\ pc[p] \in {"read_body", "send", "resp_body"}
    /\ pc' = [pc EXCEPT ![p] = "dropped"]
    /\ UNCHANGED <<inb, org, etype, out, followed, nrec, resp, obs, lock,
                   metrics, origin, forwarded, calls, given, results>>

-----------------------------------------------------------------------------
(* main.rs: get_metrics, the route /metrics *)

\* what the report prints of the aggregator's summary
Snapshot(m) ==
    [ total_requests      |-> m.total_requests,
      successful_requests |-> m.successful_requests,
      failed_requests     |-> m.failed_requests ]

\* lines 100-148: the whole report is rendered under the lock.  lock().unwrap()
\* panics on Err, and the task ends without a response.
GetMetrics(p) ==
    /\ pc[p] = "idle"
    /\ LockAttempt(p) # "wait"
    /\ inb' = [inb EXCEPT ![p] = << [kind |-> "metrics"] >>]
    /\ IF LockAttempt(p) = "ok"
       THEN /\ obs' = [obs EXCEPT ![p] = << Snapshot(metrics) >>]
            /\ Finish(p, [status |-> OK, headers |-> <<>>, body |-> <<>>])
       ELSE /\ pc' = [pc EXCEPT ![p] = "done"]
            /\ UNCHANGED <<obs, resp>>
    /\ UNCHANGED <<org, etype, out, followed, nrec, lock, metrics,
                   origin, forwarded, calls, given, results>>

-----------------------------------------------------------------------------
(* sort_json.rs and serde_json: JSON values *)

\* A serde_json::Value is [t |-> tag, v |-> content]: "null" (v = 0), "bool",
\* "num" (a natural), "str" (a byte sequence), "arr" (a sequence of values),
\* "obj" (a Map: a sequence of <<key, value>> with distinct keys, keys being
\* byte sequences, in the Map's iteration order).
JNull == [t |-> "null", v |-> 0]
JNum(n) == [t |-> "num", v |-> n]
JStr(s) == [t |-> "str", v |-> s]
JArr(a) == [t |-> "arr", v |-> a]
JObj(members) == [t |-> "obj", v |-> members]

\* Ord for String: byte-wise lexicographic
RECURSIVE KeyLess(_, _)
KeyLess(a, b) ==
    IF b = <<>> THEN FALSE
    ELSE IF a = <<>> THEN TRUE
    ELSE IF a[1] # b[1] THEN a[1] < b[1]
    ELSE KeyLess(Tail(a), Tail(b))

\* a Map that keeps only the member inserted last
MapPutAlone(members, k, v) == << <<k, v>> >>

\* Map::insert(k, v): a key already present keeps its place and gets the value
RECURSIVE MapPut(_, _, _)
MapPut(members, k, v) ==
    IF members = <<>> THEN << <<k, v>> >>
    ELSE IF members[1][1] = k THEN << <<k, v>> >> \o Tail(members)
    ELSE << members[1] >> \o MapPut(Tail(members), k, v)

\* map[k]
RECURSIVE MapGet(_, _)
MapGet(members, k) ==
    IF members[1][1] = k THEN members[1][2] ELSE MapGet(Tail(members), k)

\* map.keys().collect()
MapKeys(members) == [i \in 1..Len(members) |-> members[i][1]]

RECURSIVE InsertSorted(_, _)
InsertSorted(k, sorted) ==
    IF sorted = <<>> THEN <<k>>
    ELSE IF KeyLess(k, sorted[1]) THEN <<k>> \o sorted
    ELSE << sorted[1] >> \o InsertSorted(k, Tail(sorted))

\* keys.reverse() in place of keys.sort()
ReverseKeys(keys) == [i \in 1..Len(keys) |-> keys[Len(keys) + 1 - i]]

\* keys.sort()
RECURSIVE SortKeys(_)
SortKeys(keys) ==
    IF keys = <<>> THEN <<>> ELSE InsertSorted(keys[1], SortKeys(Tail(keys)))

\* sort_json with the arm of line 20 left out: an array is returned as it is
RECURSIVE sort_json_skip_arrays(_)
RECURSIVE SortedInsertAllSkip(_, _, _)
SortedInsertAllSkip(keys, map, sorted_map) ==
    IF keys = <<>> THEN sorted_map
    ELSE SortedInsertAllSkip(Tail(keys), map,
                             MapPut(sorted_map, keys[1],
                                    sort_json_skip_arrays(MapGet(map, keys[1]))))

sort_json_skip_arrays(value) ==
    CASE value.t = "obj" ->
            JObj(SortedInsertAllSkip(SortKeys(MapKeys(value.v)), value.v, <<>>))
      [] OTHER -> value

\* pub fn sort_json(value: &Value) -> Value
RECURSIVE sort_json(_)
RECURSIVE SortedInsertAll(_, _, _)
SortedInsertAll(keys, map, sorted_map) ==
    IF keys = <<>> THEN sorted_map
    ELSE SortedInsertAll(Tail(keys), map,
                         MapPut(sorted_map, keys[1], sort_json(MapGet(map, keys[1]))))

sort_json(value) ==
    CASE value.t = "obj" ->
            JObj(SortedInsertAll(SortKeys(MapKeys(value.v)), value.v, <<>>))
      [] value.t = "arr" ->
            JArr([i \in 1..Len(value.v) |-> sort_json(value.v[i])])
      [] OTHER -> value

\* decimal digits of a natural, as bytes
RECURSIVE Digits(_)
Digits(n) == IF n < 10 THEN <<48 + n>> ELSE Digits(n \div 10) \o <<48 + (n % 10)>>

\* serde_json::to_string: the compact text of a value, as bytes
RECURSIVE to_string(_)
RECURSIVE JoinMembers(_)
RECURSIVE JoinElements(_)
JoinMembers(members) ==
    IF members = <<>> THEN <<>>
    ELSE (IF Len(members) > 1 THEN JoinMembers(SubSeq(members, 1, Len(members) - 1)) \o <<44>>
          ELSE <<>>)
         \o <<34>> \o members[Len(members)][1] \o <<34, 58>>
         \o to_string(members[Len(members)][2])

JoinElements(elements) ==
    IF elements = <<>> THEN <<>>
    ELSE (IF Len(elements) > 1 THEN JoinElements(SubSeq(elements, 1, Len(elements) - 1)) \o <<44>>
          ELSE <<>>)
         \o to_string(elements[Len(elements)])

to_string(value) ==
    CASE value.t = "null" -> <<110, 117, 108, 108>>
      [] value.t = "bool" -> IF value.v THEN <<116, 114, 117, 101>>
                             ELSE <<102, 97, 108, 115, 101>>
      [] value.t = "num"  -> Digits(value.v)
      [] value.t = "str"  -> <<34>> \o value.v \o <<34>>
      [] value.t = "arr"  -> <<91>> \o JoinElements(value.v) \o <<93>>
      [] value.t = "obj"  -> <<123>> \o JoinMembers(value.v) \o <<125>>

\* A request body is [wellformed |-> is it JSON text, doc |-> the value it
\* spells, objects listing their members in the order of the text (a key may
\* be spelled twice)].
\* serde_json::from_slice: <<>> for Err, <<value>> for Ok; a Map takes the
\* members in the order of the text, a repeated key keeping the last value
RECURSIVE ParseValue(_)
RECURSIVE ParseMembers(_, _)
ParseMembers(members, map) ==
    IF members = <<>> THEN map
    ELSE ParseMembers(Tail(members),
                      MapPut(map, members[1][1], ParseValue(members[1][2])))

ParseValue(doc) ==
    CASE doc.t = "obj" -> JObj(ParseMembers(doc.v, <<>>))
      [] doc.t = "arr" -> JArr([i \in 1..Len(doc.v) |-> ParseValue(doc.v[i])])
      [] OTHER -> doc

from_slice(body) == IF body.wellformed THEN << ParseValue(body.doc) >> ELSE <<>>

-----------------------------------------------------------------------------
(* nowpayments_ipn_webhook.rs: the route /nowpayments-webhook *)

\* static NOWPAYMENTS_ALLOWED_IPS
NOWPAYMENTS_ALLOWED_IPS ==
    {"51.89.194.21", "51.75.77.69", "138.201.172.58", "65.21.158.36"}

\* ip.parse::<IpAddr>() of a dotted quad
ParseIpAddr(text) == [family |-> "V4", ip |-> text]

\* state.env_var_config.ipn_secret: NOWPAYMENTS_IPN_SECRET or this default
ipn_secret == "dummy-secret-for-now"

\* HMAC-SHA512, taken to be collision free: the digest names key and message
HmacSha512(key, message) == [key |-> key, message |-> message]

\* hex::encode: lowercase hex text of a digest
HexEncode(digest) == [hex |-> "lower", digest |-> digest]

\* headers.get(name): the first value of that name, <<>> if none
RECURSIVE HeaderGet(_, _)
HeaderGet(headers, name) ==
    IF headers = <<>> THEN <<>>
    ELSE IF headers[1][1] = name THEN << headers[1][2] >>
    ELSE HeaderGet(Tail(headers), name)

WebhookResponse(status, text, parsed) ==
    [status |-> status, text |-> text, parsed |-> parsed]

\* lines 24-87: the handler's verdict, and whether it parsed the body.  A
\* header value is [ascii |-> can to_str() read it, text |-> its text].
nowpayments_webhook(remote_addr, headers, body) ==
    LET client_ip == remote_addr
        allowed == \E ip \in NOWPAYMENTS_ALLOWED_IPS : client_ip = ParseIpAddr(ip)
        signature == HeaderGet(headers, "x-nowpayments-sig")
        payload == from_slice(body)
        sorted_payload == sort_json(payload[1])
        payload_str == to_string(sorted_payload)
        computed_hex == HexEncode(HmacSha512(ipn_secret, payload_str))
    IN  IF ~allowed THEN WebhookResponse(FORBIDDEN, "Forbidden", FALSE)
        ELSE IF signature = <<>>
        THEN WebhookResponse(BAD_REQUEST, "Signature missing", FALSE)
        ELSE IF ~signature[1].ascii
        THEN WebhookResponse(BAD_REQUEST, "Invalid signature format", FALSE)
        ELSE IF payload = <<>>
        THEN WebhookResponse(INTERNAL_SERVER_ERROR, "JSON parsing error", TRUE)
        ELSE IF computed_hex = signature[1].text
        THEN WebhookResponse(OK, "OK", TRUE)
        ELSE WebhookResponse(BAD_REQUEST, "Invalid signature", TRUE)

\* main.rs line 88: axum::serve(ipv6_listener, app) serves the Router itself,
\* not app.into_make_service_with_connect_info::<SocketAddr>(), so no request
\* carries a ConnectInfo extension
ServedWithConnectInfo == FALSE

\* the ConnectInfo<SocketAddr> extractor of the handler's first argument:
\* <<>> when the extension is missing
ExtractConnectInfo(remote_addr) ==
    IF ServedWithConnectInfo THEN << remote_addr >> ELSE <<>>

\* what the route answers: the extractors run first, in argument order, and a
\* failed extractor answers in the handler's place (a missing extension is a
\* 500); only then does the handler run
webhook_route(remote_addr, headers, body) ==
    LET connect_info == ExtractConnectInfo(remote_addr)
    IN  IF connect_info = <<>>
        THEN WebhookResponse(INTERNAL_SERVER_ERROR, "Missing request extension", FALSE)
        ELSE nowpayments_webhook(connect_info[1], headers, body)

\* the x-nowpayments-sig header a caller of each kind sends with a body
SignatureHeaders(kind, body) ==
    LET value == from_slice(body)
        canonical == IF value = <<>> THEN <<>> ELSE to_string(sort_json(value[1]))
        literal == IF value = <<>> THEN <<>> ELSE to_string(value[1])
        Sig(text) == << <<"x-nowpayments-sig", [ascii |-> TRUE, text |-> text]>> >>
    IN  CASE kind = "missing"  -> << <<"content-type", [ascii |-> TRUE, text |-> [hex |-> "none", digest |-> [key |-> "", message |-> <<>>]]]>> >>
          [] kind = "nonascii" -> << <<"x-nowpayments-sig",
                                      [ascii |-> FALSE,
                                       text |-> HexEncode(HmacSha512(ipn_secret, canonical))]>> >>
          [] kind = "signed"   -> Sig(HexEncode(HmacSha512(ipn_secret, canonical)))
          [] kind = "upper"    -> Sig([hex |-> "upper",
                                       digest |-> HmacSha512(ipn_secret, canonical)])
          [] kind = "unsorted" -> Sig(HexEncode(HmacSha512(ipn_secret, literal)))
          [] kind = "wrongkey" -> Sig(HexEncode(HmacSha512("other-secret", canonical)))

\* a handler that counts each webhook request in the aggregator
webhook_state_counted(m) == [m EXCEPT !.total_requests = @ + 1]

\* State(state), line 26: what the handler makes of the RequestMetrics behind
\* state.metrics.  It reads state.ipn_secret alone and never locks the mutex.
webhook_state(m) == m

\* the webhook request arrives and is answered (the handler awaits nothing)
Webhook(p, D) ==
    /\ pc[p] = "idle"
    /\ \E remote_addr \in D.addrs, kind \in D.sigs, body \in D.wbodies :
        LET headers == SignatureHeaders(kind, body)
        IN  /\ inb' = [inb EXCEPT ![p] = << [kind |-> "webhook",
                                             remote_addr |-> remote_addr,
                                             sig |-> kind,
                                             headers |-> headers,
                                             body |-> body] >>]
            /\ Finish(p, webhook_route(remote_addr, headers, body))
    /\ metrics' = webhook_state(metrics)
    /\ UNCHANGED <<org, etype, out, followed, nrec, obs, lock,
                   origin, forwarded, calls, given, results>>

-----------------------------------------------------------------------------
(* The server *)

InitServer ==
    /\ pc = [p \in Tasks |-> "idle"]
    /\ inb = [p \in Tasks |-> <<>>]
    /\ org = [p \in Tasks |-> <<>>]
    /\ etype = [p \in Tasks |-> ""]
    /\ out = [p \in Tasks |-> <<>>]
    /\ followed = [p \in Tasks |-> <<>>]
    /\ nrec = [p \in Tasks |-> 0]
    /\ resp = [p \in Tasks |-> <<>>]
    /\ obs = [p \in Tasks |-> <<>>]
    /\ lock = 0
    /\ metrics = MetricsDefault

Init ==
    /\ InitServer
    /\ origin = <<>>
    /\ forwarded = <<>>
    /\ calls = <<>>
    /\ given = <<>>
    /\ results = <<>>

\* one step of the task serving request p, its inputs drawn from D
Serve(p, D) ==
    \/ ForwardStart(p, D)
    \/ ReadBody(p)
    \/ FollowRedirect(p, D)
    \/ SendResult(p, D)
    \/ ResponseBody(p, D)
    \/ RecordError(p)
    \/ RecordBegin(p)
    \/ RecordEnd(p)
    \/ Cancel(p)
    \/ GetMetrics(p)
    \/ Webhook(p, D)

Next == \E p \in Tasks : Serve(p, Narrow)

\* NumTasks requests served concurrently
Spec == Init /\ [][Next]_vars

\* The runtime keeps running a task that is not suspended: a task that holds
\* the metrics mutex, or that waits for it while it is free, takes its step.
\* Nothing is assumed of a task suspended at an .await: the caller and the
\* origin may keep it there for ever.
NextLean == \E p \in Tasks : Serve(p, Lean)

SpecFair ==
    /\ Init /\ [][NextLean]_vars
    /\ \A p \in Tasks : /\ WF_vars(RecordBegin(p))
                       /\ WF_vars(RecordEnd(p))
                       /\ WF_vars(RecordError(p))

NextOne == Serve(1, Wide)

\* one request, with the wide input domain
SpecOne == Init /\ [][NextOne]_vars

-----------------------------------------------------------------------------
(* forward_response over bounded origin responses *)

\* every sequence over S of length at most n
SeqsUpTo(S, n) == UNION { [1..k -> S] : k \in 0..n }

\* headers an origin may send (HeaderMap keeps names in lower case)
OriginHeaderChoices ==
    { <<"content-length", "9">>, <<"content-length", "0">>,
      <<"transfer-encoding", "chunked">>, <<"connection", "close">>,
      <<"content-type", "text/plain">> }

OriginResponses ==
    [ status  : {200, 404, 502},
      headers : SeqsUpTo(OriginHeaderChoices, MaxHeaders),
      body    : SeqsUpTo({7, 8}, MaxBodyLen) ]

InitResp ==
    /\ InitServer
    /\ origin \in { <<o>> : o \in OriginResponses }
    /\ forwarded = <<>>
    /\ calls = <<>>
    /\ given = <<>>
    /\ results = <<>>

\* lines 351-369 applied to the origin response
BuildResponse ==
    /\ forwarded = <<>>
    /\ forwarded' = << forward_response(origin[1].status, origin[1].headers,
                                        origin[1].body) >>
    /\ UNCHANGED <<pc, inb, org, etype, out, followed, nrec, resp, obs, lock,
                   metrics, origin, calls, given, results>>

SpecResp == InitResp /\ [][BuildResponse]_vars

-----------------------------------------------------------------------------
(* record_request and record_error over bounded sequences of calls *)

\* longest sequence of calls made on the RequestMetrics
MaxCalls == 3

\* the arguments of record_request: the path begins with "/" (main.rs 156),
\* the status is a u16, duration_ms a u64 (0 for a request served in less
\* than a millisecond), response_size a usize
RequestCalls ==
    [ path : {"/a", "/b"}, env : {"test"}, status : {200},
      duration_ms : {0, 1, 2}, response_size : {0} ]
    \cup
    [ path : {"/a"}, env : {"prod"},
      status : {100, 199, 200, 302, 399, 400, 500},
      duration_ms : {1}, response_size : {1} ]
    \cup
    [ path : {"/a", "/b"}, env : {"test"}, status : {200},
      duration_ms : {1}, response_size : {0, 1, 2} ]

\* the argument of record_error
ErrorKinds == {"connection", "timeout", "dns", "other", ""}

InitRec ==
    /\ InitServer
    /\ origin = <<>>
    /\ forwarded = <<>>
    /\ calls = <<>>
    /\ given = <<>>
    /\ results = <<>>

\* metrics.record_request(path, env, status, duration_ms, response_size)
RecordRequestCall ==
    /\ Len(calls) < MaxCalls
    /\ \E c \in RequestCalls :
        /\ metrics' = record_request(metrics, c.path, c.env, c.status,
                                     c.duration_ms, c.response_size)
        /\ calls' = Append(calls, [op |-> "record_request", args |-> c])
    /\ UNCHANGED <<pc, inb, org, etype, out, followed, nrec, resp, obs, lock,
                   origin, forwarded, given, results>>

\* metrics.record_error(error_type)
RecordErrorCall ==
    /\ Len(calls) < MaxCalls
    /\ \E error_type \in ErrorKinds :
        /\ metrics' = record_error(metrics, error_type)
        /\ calls' = Append(calls, [op |-> "record_error",
                                   args |-> [error_type |-> error_type]])
    /\ UNCHANGED <<pc, inb, org, etype, out, followed, nrec, resp, obs, lock,
                   origin, forwarded, given, results>>

NextRec == RecordRequestCall \/ RecordErrorCall

SpecRec == InitRec /\ [][NextRec]_vars

-----------------------------------------------------------------------------
(* sort_json over bounded JSON values *)

\* most elements of an array and most members of an object
MaxMembers == 2

\* Value::Null, Bool, Number, String
JsonScalars ==
    { JNull, [t |-> "bool", v |-> TRUE], JNum(1), JNum(20), JStr(<<98>>) }

\* keys "a", "b", "B" and "aa" as bytes
JsonKeys == { <<97>>, <<98>>, <<66>>, <<97, 97>> }

\* the Maps of at most MaxMembers members with values in S: the keys of a Map
\* are distinct, and iterate in any order
JsonMaps(S) ==
    { m \in SeqsUpTo(JsonKeys \X S, MaxMembers) :
        \A i, j \in 1..Len(m) : i # j => m[i][1] # m[j][1] }

\* the arrays and objects whose elements and member values are in S
JsonFlat(S) ==
    { JArr(a) : a \in SeqsUpTo(S, MaxMembers) } \cup { JObj(m) : m \in JsonMaps(S) }

\* x inside an array, and x inside an array inside an object whose keys are
\* not in order
JsonNest(x) ==
    { JArr(<<x>>),
      JObj(<< <<(<<98>>), x>>, <<(<<97>>), JArr(<<JNum(1), x>>)>> >>) }

JsonLevel1 == JsonScalars \cup JsonFlat(JsonScalars)
JsonLevel2 == UNION { JsonNest(x) : x \in JsonLevel1 }
JsonLevel3 == UNION { JsonNest(x) : x \in JsonLevel2 }

\* the values given to sort_json
JsonValues == JsonLevel1 \cup JsonLevel2 \cup JsonLevel3

InitJson ==
    /\ InitServer
    /\ origin = <<>>
    /\ forwarded = <<>>
    /\ calls = <<>>
    /\ given \in { <<v>> : v \in JsonValues }
    /\ results = <<>>

\* sort_json(&value), applied to the given value and then to its own result
SortJson ==
    /\ Len(results) < 2
    /\ results' = Append(results,
                         sort_json(IF results = <<>> THEN given[1]
                                   ELSE results[Len(results)]))
    /\ UNCHANGED <<pc, inb, org, etype, out, followed, nrec, resp, obs, lock,
                   metrics, origin, forwarded, calls, given>>

SpecJson == InitJson /\ [][SortJson]_vars

-----------------------------------------------------------------------------
(* Claims *)

IsForward(p) == inb[p] # <<>> /\ inb[p][1].kind = "forward"
IsWebhook(p) == inb[p] # <<>> /\ inb[p][1].kind = "webhook"
Returned(p) == pc[p] = "done" /\ resp[p] # <<>>

\* the origin's response was read in full
OriginCompleted(p) ==
    IsForward(p) /\ org[p] # <<>> /\ "body" \in DOMAIN org[p][1]

Consistent(m) ==
    m.successful_requests + m.failed_requests = m.total_requests

\* C1: whatever the interleaving of forward requests and /metrics reads, every
\* observation of the aggregator (the snapshot a /metrics read renders, and the
\* aggregator whenever no task holds the lock) has
\* successful_requests + failed_requests = total_requests.
C1_ObservedConsistent ==
    /\ lock = 0 => Consistent(metrics)
    /\ \A p \in Tasks : obs[p] # <<>> => Consistent(obs[p][1])

\* a /metrics read rendered a snapshot that counts another task's request
C1_Witness ==
    \E p \in Tasks : obs[p] # <<>> /\ obs[p][1].total_requests >= 1

\* C2: once every task has returned or was dropped, total_requests is the
\* number N of forward requests whose origin response was read in full, and
\* successful_requests + failed_requests = N: no update is lost.
C2_NoLostUpdate ==
    (\A p \in Tasks : pc[p] \in {"done", "dropped"}) =>
        LET N == Cardinality({p \in Tasks : OriginCompleted(p)})
        IN  /\ metrics.total_requests = N
            /\ metrics.successful_requests + metrics.failed_requests = N

\* every task served a forward request to completion, and all are counted
C2_Witness ==
    /\ NumTasks >= 2
    /\ \A p \in Tasks : pc[p] = "done" /\ OriginCompleted(p)
    /\ metrics.total_requests = NumTasks

\* C3: a forward attempt (an outbound call was made) that has returned, with
\* the origin's response or with a failure, changed the aggregator exactly once.
C3_ExactlyOneUpdate ==
    \A p \in Tasks :
        (IsForward(p) /\ out[p] # <<>> /\ Returned(p)) => nrec[p] = 1

\* C4: no outbound request is sent for an inbound request whose body exceeds
\* MAX_BODY_SIZE.
C4_OversizedRejected ==
    \A p \in Tasks :
        (IsForward(p) /\ inb[p][1].len > MAX_BODY_SIZE) => out[p] = <<>>

\* C5: a forward request whose environment tag is neither "test" nor "prod" is
\* answered 400 and no outbound request is ever sent for it, whatever its
\* method, path, query, headers and body.
C5_UnknownEnvRejected ==
    \A p \in Tasks :
        (IsForward(p) /\ inb[p][1].env \notin {"test", "prod"}) =>
            /\ Returned(p)
            /\ resp[p][1].status = BAD_REQUEST
            /\ out[p] = <<>>

\* a POST to an unknown environment, with a query and a body, was answered
C5_Witness ==
    \E p \in Tasks :
        /\ IsForward(p) /\ Returned(p)
        /\ inb[p][1].env = "staging"
        /\ inb[p][1].method = "POST"
        /\ inb[p][1].query # <<>>
        /\ inb[p][1].len > 0

SourceAllowed(remote_addr) ==
    \E ip \in NOWPAYMENTS_ALLOWED_IPS : remote_addr = ParseIpAddr(ip)

\* C6: a webhook request from a source address outside the allow-list is
\* answered 403, whatever its signature header and body, and its body is not
\* parsed.
C6_UnlistedSourceForbidden ==
    \A p \in Tasks :
        (IsWebhook(p) /\ Returned(p) /\ ~SourceAllowed(inb[p][1].remote_addr)) =>
            /\ resp[p][1].status = FORBIDDEN
            /\ ~resp[p][1].parsed

\* the status the three ordered stages of the verifier give
StagedStatus(r) ==
    LET signature == HeaderGet(r.headers, "x-nowpayments-sig")
        payload == from_slice(r.body)
    IN  IF ~SourceAllowed(r.remote_addr) THEN 403
        ELSE IF signature = <<>> \/ ~signature[1].ascii THEN 400
        ELSE IF payload = <<>> THEN 500
        ELSE IF signature[1].text #
                  HexEncode(HmacSha512(ipn_secret, to_string(sort_json(payload[1]))))
        THEN 400
        ELSE 200

\* C7: a webhook request is answered 403 if its source is not allow-listed;
\* else 400 if the signature header is missing or not text; else 500 if the
\* body is not JSON; else 400 if the signature does not match; else 200.
C7_StagedOutcome ==
    \A p \in Tasks :
        (IsWebhook(p) /\ Returned(p)) =>
            resp[p][1].status = StagedStatus(inb[p][1])

\* lowercase hex of the HMAC-SHA512, keyed by the secret, of the compact text
\* of the key-sorted body
ExpectedSignature(body) ==
    HexEncode(HmacSha512(ipn_secret, to_string(sort_json(from_slice(body)[1]))))

\* C8: a webhook request from an allow-listed source, with a text signature
\* header and a JSON body, is answered 200 exactly if the header is the
\* lowercase hex HMAC-SHA512, keyed by the secret, of the compact text of the
\* key-sorted body.
C8_AcceptsIffSigned ==
    \A p \in Tasks :
        (/\ IsWebhook(p) /\ Returned(p)
         /\ SourceAllowed(inb[p][1].remote_addr)
         /\ HeaderGet(inb[p][1].headers, "x-nowpayments-sig") # <<>>
         /\ HeaderGet(inb[p][1].headers, "x-nowpayments-sig")[1].ascii
         /\ inb[p][1].body.wellformed) =>
            (resp[p][1].status = OK <=>
                HeaderGet(inb[p][1].headers, "x-nowpayments-sig")[1].text
                  = ExpectedSignature(inb[p][1].body))

HeaderValues(headers, name) ==
    SelectSeq(headers, LAMBDA h : h[1] = name)

\* C9: the response made of an origin response has exactly one Content-Length,
\* whose value is the decimal length of the forwarded body, and neither
\* Transfer-Encoding nor Connection.
C9_ForwardedHeaders ==
    forwarded # <<>> =>
        LET r == forwarded[1]
        IN  /\ HeaderValues(r.headers, "content-length")
                 = << <<"content-length", ToString(Len(r.body))>> >>
            /\ HeaderValues(r.headers, "transfer-encoding") = <<>>
            /\ HeaderValues(r.headers, "connection") = <<>>

\* an origin response carrying a wrong Content-Length, Transfer-Encoding and
\* Connection was turned into a response
C9_Witness ==
    /\ forwarded # <<>>
    /\ HeaderValues(origin[1].headers, "content-length")
         = << <<"content-length", "9">> >>
    /\ HeaderValues(origin[1].headers, "transfer-encoding") # <<>>
    /\ HeaderValues(origin[1].headers, "connection") # <<>>
    /\ Len(origin[1].body) = 2

\* C10: a forward request that has returned carries the status of every
\* response the origin gave to it, whatever that status, and, when the
\* response was read in full, the origin's body bytes.
C10_OriginResponseForwarded ==
    \A p \in Tasks :
        (IsForward(p) /\ Returned(p)) =>
            /\ \A i \in 1..Len(followed[p]) :
                   resp[p][1].status = followed[p][i].status
            /\ OriginCompleted(p) =>
                   /\ resp[p][1].status = org[p][1].status
                   /\ resp[p][1].body = org[p][1].body

\* send() or bytes() returned Err for the task's attempt
TransportFailed(p) ==
    IsForward(p) /\ org[p] # <<>> /\ "failed" \in DOMAIN org[p][1]

\* C11: a forward attempt that failed in transport (send() or bytes() gave
\* Err) and has returned was answered 502, made at most one outbound call, and
\* its failure was recorded in the aggregator by the time of the answer.
C11_FailureRecordedNoRetry ==
    \A p \in Tasks :
        (TransportFailed(p) /\ Returned(p)) =>
            /\ resp[p][1].status = BAD_GATEWAY
            /\ Len(out[p]) <= 1
            /\ nrec[p] = 1

\* the record_request calls made so far, in order
RequestsMade == SelectSeq(calls, LAMBDA c : c.op = "record_request")

\* the largest duration_ms among the calls rs
MaxDuration(rs) ==
    CHOOSE d \in {rs[i].args.duration_ms : i \in 1..Len(rs)} :
        \A i \in 1..Len(rs) : rs[i].args.duration_ms <= d

\* the earliest of the calls rs whose duration_ms is the largest
EarliestSlowest(rs) ==
    rs[CHOOSE i \in 1..Len(rs) :
          /\ rs[i].args.duration_ms = MaxDuration(rs)
          /\ \A j \in 1..(i - 1) : rs[j].args.duration_ms < MaxDuration(rs)]

\* C12 as stated: after any non-empty sequence of record_request calls the
\* tracked slowest request is the (duration, path) of the earliest call whose
\* duration is the largest recorded so far.
C12_SlowestIsEarliestMax ==
    RequestsMade # <<>> =>
        /\ metrics.slowest_request_time_ms = MaxDuration(RequestsMade)
        /\ metrics.slowest_request_path = EarliestSlowest(RequestsMade).args.path

\* C12: after any non-empty sequence of record_request calls the tracked
\* slowest duration is the largest duration recorded so far; the tracked path
\* is the path of the earliest call with that duration when it is above 0, and
\* stays the empty path of RequestMetrics::default while every duration is 0.
C12_SlowestIsEarliestPositiveMax ==
    RequestsMade # <<>> =>
        /\ metrics.slowest_request_time_ms = MaxDuration(RequestsMade)
        /\ metrics.slowest_request_path =
              IF MaxDuration(RequestsMade) > 0
              THEN EarliestSlowest(RequestsMade).args.path
              ELSE ""

\* 1 ms on /b, then 2 ms on /a, then 2 ms on /b: the slowest stays 2 ms on /a
C12_Witness ==
    /\ Len(RequestsMade) = 3
    /\ RequestsMade[1].args.duration_ms = 1 /\ RequestsMade[1].args.path = "/b"
    /\ RequestsMade[2].args.duration_ms = 2 /\ RequestsMade[2].args.path = "/a"
    /\ RequestsMade[3].args.duration_ms = 2 /\ RequestsMade[3].args.path = "/b"
    /\ metrics.slowest_request_path = "/a"

\* C13: sort_json is idempotent: for every JSON value v,
\* sort_json(sort_json(v)) = sort_json(v), as trees with their members in
\* order and as their serialized text.
C13_SortIdempotent ==
    Len(results) = 2 =>
        /\ results[2] = results[1]
        /\ to_string(results[2]) = to_string(results[1])

\* sort_json ran twice on a value it had to reorder below an array
C13_Witness ==
    /\ Len(results) = 2
    /\ given[1] \in JsonLevel3
    /\ results[1] # given[1]

\* byte-wise order of two keys: a is a proper prefix of b, or they differ
\* first at a byte that is smaller in a
BytewiseLess(a, b) ==
    \/ Len(a) < Len(b) /\ \A i \in 1..Len(a) : a[i] = b[i]
    \/ \E i \in 1..Len(a) :
          /\ i <= Len(b)
          /\ a[i] < b[i]
          /\ \A j \in 1..(i - 1) : a[j] = b[j]

\* every object of v, at every level, lists its keys in strictly ascending
\* byte-wise order
RECURSIVE KeysAscending(_)
KeysAscending(v) ==
    CASE v.t = "obj" ->
            /\ \A i \in 1..(Len(v.v) - 1) : BytewiseLess(v.v[i][1], v.v[i + 1][1])
            /\ \A i \in 1..Len(v.v) : KeysAscending(v.v[i][2])
      [] v.t = "arr" -> \A i \in 1..Len(v.v) : KeysAscending(v.v[i])
      [] OTHER -> TRUE

\* C14: for every JSON value v, every object of sort_json(v), at every nesting
\* level and inside arrays too, has its keys in strictly ascending byte-wise
\* order.
C14_KeysAscending ==
    results # <<>> => KeysAscending(results[1])

\* the given value holds, inside an array inside an object, an object with
\* the keys "b", "B" out of order, and was sorted
C14_Witness ==
    /\ results # <<>>
    /\ given[1].t = "obj"
    /\ \E i \in 1..Len(given[1].v) :
          /\ given[1].v[i][2].t = "arr"
          /\ \E j \in 1..Len(given[1].v[i][2].v) :
                LET x == given[1].v[i][2].v[j]
                IN  /\ x.t = "obj"
                    /\ Len(x.v) = 2
                    /\ x.v[1][1] = <<98>>
                    /\ x.v[2][1] = <<66>>

\* v and s hold the same content: equal scalars, arrays of the same length
\* with the same content at each index, objects with the same key set and the
\* same content under each key
RECURSIVE SameContent(_, _)
SameContent(v, s) ==
    CASE v.t = "obj" ->
            /\ s.t = "obj"
            /\ Len(s.v) = Len(v.v)
            /\ {s.v[i][1] : i \in 1..Len(s.v)} = {v.v[i][1] : i \in 1..Len(v.v)}
            /\ \A i \in 1..Len(v.v), j \in 1..Len(s.v) :
                  v.v[i][1] = s.v[j][1] => SameContent(v.v[i][2], s.v[j][2])
      [] v.t = "arr" ->
            /\ s.t = "arr"
            /\ Len(s.v) = Len(v.v)
            /\ \A i \in 1..Len(v.v) : SameContent(v.v[i], s.v[i])
      [] OTHER -> s = v

\* C15: for every JSON value v, sort_json(v) has in every object the same keys
\* with the same (sorted) values, in every array the same elements in the same
\* order, and every scalar unchanged.
C15_ContentPreserved ==
    results # <<>> => SameContent(given[1], results[1])

\* an array of two different scalars inside a reordered object was sorted
C15_Witness ==
    /\ results # <<>>
    /\ results[1] # given[1]
    /\ given[1].t = "obj"
    /\ \E i \in 1..Len(given[1].v) :
          /\ given[1].v[i][2].t = "arr"
          /\ Len(given[1].v[i][2].v) = 2
          /\ given[1].v[i][2].v[1] = JNum(1)
          /\ given[1].v[i][2].v[2] = JStr(<<98>>)

\* why the outbound call of the task failed ("none" if it did not)
FailureCause(p) == IF TransportFailed(p) THEN org[p][1].failed ELSE "none"

\* C16: once the one request served has returned, the error counters match
\* the cause of its transport failure: a timeout is counted in timeout_errors
\* alone, a refused connection in connection_errors alone, a failed name
\* resolution of the origin host in dns_errors alone; and dns_errors is
\* changed by nothing but a failed name resolution.
C16_FailureClassified ==
    \A p \in Tasks :
        (IsForward(p) /\ Returned(p)) =>
            LET counted == << metrics.timeout_errors, metrics.connection_errors,
                              metrics.dns_errors >>
            IN  /\ FailureCause(p) = "timeout" => counted = <<1, 0, 0>>
                /\ FailureCause(p) = "connect" => counted = <<0, 1, 0>>
                /\ FailureCause(p) = "dns" => counted = <<0, 0, 1>>
                /\ FailureCause(p) # "dns" => metrics.dns_errors = 0

\* the positions where a handler is suspended: reading the inbound body,
\* waiting on the origin call, reading the origin's response body
Suspended == {"read_body", "send", "resp_body"}

\* C17: a task suspended at an .await never holds the metrics mutex; so,
\* however many tasks stay suspended, the mutex is free again and again with
\* no task left waiting for it: every task that has an update to record (a
\* request or an error) acquires the mutex, records it and returns.  (A task
\* serves one request, so "again and again none waits" says that each one
\* that waits gets through.)
C17_LockNotHeldSuspended ==
    /\ [](\A p \in Tasks : pc[p] \in Suspended => lock # p)
    /\ []<>(/\ lock = 0
            /\ \A p \in Tasks : pc[p] \notin {"rec_lock", "rec_outcome", "err_lock"})

\* one request recorded its response and returned while another was waiting
\* on its origin call
C17_Witness ==
    \E p, q \in Tasks :
        /\ pc[p] = "send"
        /\ IsForward(q) /\ Returned(q) /\ nrec[q] = 1
        /\ metrics.total_requests = 1

\* the step is a call of op, and c the call
IsCall(op) == calls' # calls /\ calls'[Len(calls')].op = op
LastArgs == calls'[Len(calls')].args

\* 1 if kind is the kind counted, else 0
Counted(kind, counted) == IF kind = counted THEN 1 ELSE 0

\* C18: a call record_error(kind) adds 1 to connection_errors, timeout_errors
\* or dns_errors when kind is "connection", "timeout" or "dns", adds nothing
\* for any other kind, and leaves every other field of the aggregator as it
\* was.
C18_RecordErrorFrame ==
    [][ IsCall("record_error") =>
          /\ metrics'.connection_errors =
                metrics.connection_errors + Counted(LastArgs.error_type, "connection")
          /\ metrics'.timeout_errors =
                metrics.timeout_errors + Counted(LastArgs.error_type, "timeout")
          /\ metrics'.dns_errors =
                metrics.dns_errors + Counted(LastArgs.error_type, "dns")
          /\ \A field \in DOMAIN metrics \ {"connection_errors", "timeout_errors",
                                             "dns_errors"} :
                metrics'[field] = metrics[field] ]_vars

\* record_error("other") and record_error("dns") were called on an aggregator
\* that had recorded a request
C18_Witness ==
    /\ Len(calls) = 3
    /\ calls[1].op = "record_request"
    /\ calls[2] = [op |-> "record_error", args |-> [error_type |-> "other"]]
    /\ calls[3] = [op |-> "record_error", args |-> [error_type |-> "dns"]]
    /\ metrics.dns_errors = 1
    /\ metrics.total_requests = 1

\* C19: a call record_request(.., status, ..) adds exactly 1 to total_requests
\* and exactly 1 to one of successful_requests and failed_requests: to
\* successful_requests if 200 <= status < 400, to failed_requests otherwise.
C19_RecordRequestClassifies ==
    [][ IsCall("record_request") =>
          /\ metrics'.total_requests = metrics.total_requests + 1
          /\ IF 200 <= LastArgs.status /\ LastArgs.status < 400
             THEN /\ metrics'.successful_requests = metrics.successful_requests + 1
                  /\ metrics'.failed_requests = metrics.failed_requests
             ELSE /\ metrics'.failed_requests = metrics.failed_requests + 1
                  /\ metrics'.successful_requests = metrics.successful_requests ]_vars

\* statuses 199, 399 and 400 were recorded: one success and two failures
C19_Witness ==
    /\ Len(calls) = 3
    /\ calls[1].op = "record_request" /\ calls[1].args.status = 199
    /\ calls[2].op = "record_request" /\ calls[2].args.status = 399
    /\ calls[3].op = "record_request" /\ calls[3].args.status = 400
    /\ metrics.successful_requests = 1
    /\ metrics.failed_requests = 2

\* the positions in rs of the calls for path
CallsFor(rs, path) == {i \in 1..Len(rs) : rs[i].args.path = path}

\* the largest member of a non-empty set of naturals
Latest(S) == CHOOSE i \in S : \A j \in S : j <= i

\* C20: after any sequence of record_request calls, response_sizes holds, for
\* each path recorded, the response_size of the latest call for that path
\* (whatever the calls for other paths in between), and nothing for a path
\* never recorded.
C20_ResponseSizeOverwritten ==
    LET rs == RequestsMade
    IN  /\ DOMAIN metrics.response_sizes = {rs[i].args.path : i \in 1..Len(rs)}
        /\ \A path \in DOMAIN metrics.response_sizes :
              metrics.response_sizes[path] =
                  rs[Latest(CallsFor(rs, path))].args.response_size

\* /a recorded with 2 bytes, /b with 1 byte, then /a again with 0 bytes
C20_Witness ==
    /\ Len(calls) = 3
    /\ calls[1].op = "record_request"
    /\ calls[1].args.path = "/a" /\ calls[1].args.response_size = 2
    /\ calls[2].op = "record_request"
    /\ calls[2].args.path = "/b" /\ calls[2].args.response_size = 1
    /\ calls[3].op = "record_request"
    /\ calls[3].args.path = "/a" /\ calls[3].args.response_size = 0
    /\ metrics.response_sizes["/a"] = 0
    /\ metrics.response_sizes["/b"] = 1

\* the request the handler built for the task: the first the client sent
Outbound(p) == out[p][1]

\* C21: the outbound request of a forward request with environment "test" or
\* "prod" has the method of the inbound request, targets the base URL of the
\* environment followed by "/", the remaining path as the caller sent it, and
\* the query string unchanged, carries the inbound headers other than Host as
\* they came, and exactly one Host header, naming the target host.
C21_OutboundRequestBuilt ==
    \A p \in Tasks :
        (IsForward(p) /\ out[p] # <<>>) =>
            LET r == inb[p][1]
                o == Outbound(p)
            IN  /\ o.method = r.method
                /\ <<o.uri.scheme, o.uri.host>> = target_base(r.env)
                /\ o.uri.path = <<"/", r.captured>>
                /\ o.uri.query = (IF r.query = <<>> THEN <<>> ELSE <<"?", r.query[1]>>)
                /\ HeaderRemove(o.headers, "host") = HeaderRemove(r.headers, "host")
                /\ HeaderValues(o.headers, "host") = << <<"host", o.uri.host>> >>

\* the step is task p's webhook request, arriving and answered
WebhookStep(p) ==
    /\ pc[p] = "idle"
    /\ pc'[p] = "done"
    /\ inb'[p] # <<>>
    /\ inb'[p][1].kind = "webhook"

\* what the tasks share, and what belongs to task q
SharedState == <<lock, metrics>>
TaskState(q) ==
    <<pc[q], inb[q], org[q], etype[q], out[q], followed[q], nrec[q], resp[q], obs[q]>>

\* C22: a webhook request, whatever its answer and whatever the other tasks
\* are doing, leaves the aggregator, the mutex and every other task's state
\* as they were; and its answer is a function of its own source address,
\* headers and body (and the configured secret): two webhook requests that
\* agree on these get the same answer.
C22_WebhookFrame ==
    /\ [][ \A p \in Tasks :
              WebhookStep(p) =>
                  /\ SharedState' = SharedState
                  /\ \A q \in Tasks \ {p} : TaskState(q)' = TaskState(q) ]_vars
    /\ [](\A p, q \in Tasks :
             (/\ IsWebhook(p) /\ Returned(p)
              /\ IsWebhook(q) /\ Returned(q)
              /\ inb[p][1].remote_addr = inb[q][1].remote_addr
              /\ inb[p][1].headers = inb[q][1].headers
              /\ inb[p][1].body = inb[q][1].body) => resp[p] = resp[q])

\* a webhook request was answered while another task held the metrics mutex
\* in the middle of record_request
C22_Witness ==
    \E p, q \in Tasks :
        /\ IsWebhook(p) /\ Returned(p)
        /\ pc[q] = "rec_outcome" /\ lock = q
        /\ metrics.total_requests = 1

\* the sum of the counters of a map
RECURSIVE SumOver(_, _)
SumOver(map, keys) ==
    IF keys = {} THEN 0
    ELSE LET k == CHOOSE x \in keys : TRUE
         IN  map[k] + SumOver(map, keys \ {k})

CounterSum(map) == SumOver(map, DOMAIN map)

\* C23: in every reachable state of the aggregator the per-path counters, the
\* per-status counters and the per-environment counters each add up to
\* total_requests.
C23_CountersSumToTotal ==
    /\ CounterSum(metrics.requests_by_path) = metrics.total_requests
    /\ CounterSum(metrics.requests_by_status) = metrics.total_requests
    /\ CounterSum(metrics.env_requests) = metrics.total_requests

\* three requests were recorded, over two paths, two statuses and two
\* environments, with record_error calls possibly between them
C23_Witness ==
    /\ metrics.total_requests = 3
    /\ Cardinality(DOMAIN metrics.requests_by_path) = 2
    /\ Cardinality(DOMAIN metrics.requests_by_status) = 2
    /\ Cardinality(DOMAIN metrics.env_requests) = 2

\* the step is task p's forward request, arriving and rejected at the
\* environment match
UnknownEnvStep(p) ==
    /\ pc[p] = "idle"
    /\ pc'[p] = "done"
    /\ inb'[p] # <<>>
    /\ inb'[p][1].kind = "forward"
    /\ inb'[p][1].env \notin {"test", "prod"}

\* C24: a forward request that is rejected for an unknown environment leaves
\* every field of the aggregator unchanged, whatever the other tasks have
\* recorded or are recording; so in every reachable state the keys of the
\* per-environment counters are among "test" and "prod".
C24_UnknownEnvNotCounted ==
    /\ [][ \A p \in Tasks : UnknownEnvStep(p) => metrics' = metrics ]_vars
    /\ [](DOMAIN metrics.env_requests \subseteq {"test", "prod"})

\* a request to an unknown environment was rejected, and another task's
\* request to a known environment is counted
C24_Witness ==
    \E p, q \in Tasks :
        /\ IsForward(p) /\ Returned(p)
        /\ inb[p][1].env = "staging"
        /\ resp[p][1].status = BAD_REQUEST
        /\ IsForward(q) /\ Returned(q)
        /\ metrics.total_requests = 1
        /\ DOMAIN metrics.env_requests = {"test"}

====
